---- MODULE Spec2Model ----
(***************************************************************************)
(* Box processing: the batch pipeline of process_boxes.py, its two utility *)
(* modules (math_utils.py, report_utils.py) and the Flask boundary of      *)
(* app.py.                                                                 *)
(*                                                                         *)
(* Numbers.  A dimension, as the code meets it, is a Python value: a       *)
(* number, the float NaN (an empty CSV cell, or float("nan")), or a str    *)
(* (a cell of a column pandas could not parse as numeric).  A value is a   *)
(* record [k, v]; k = "err" stands for a raised exception.  Numbers are    *)
(* integers; time is counted in ticks of 0.1 s.                            *)
(***************************************************************************)
EXTENDS Integers, Sequences, FiniteSets, TLC

VARIABLES
    args,              \* the (height, weight, breadth) handed to the calculators
    ret,               \* what the two calculators returned
    fs,                \* the paths that exist on disk
    csv_file,          \* the table process_images is pointed at, as written
    df,                \* pd.read_csv's DataFrame
    idx,               \* position of df.iterrows()
    ppc,               \* where process_images is
    now,               \* time.time(), in ticks
    cur,               \* the locals of the loop body
    steps,             \* the steps taken for the current row, in order
    net_log,           \* what the network did to each fetch, in order
    processed_data,
    processing_times,
    pc,                \* where the caller (main, or a Flask handler) is
    timing_stats,
    csv_output,
    markdown_output,
    request,           \* the submission a Flask handler is serving
    flashes,           \* the messages flashed to the submitter, in order
    response,          \* what the handler answered with
    result,            \* the template's data
    saved              \* the paths the request's file.save calls wrote

geomVars == <<args, ret>>
pipeVars == <<fs, csv_file, df, idx, ppc, now, cur, steps, net_log,
              processed_data, processing_times>>
outVars == <<timing_stats, csv_output, markdown_output>>
appVars == <<request, flashes, response, result, saved>>
\* What process_images does not touch.
callerVars == <<geomVars, pc, outVars, appVars>>
vars == <<geomVars, pipeVars, pc, outVars, appVars>>

----------------------------------------------------------------------------
(* Python values *)

Num(n) == [k |-> "num", v |-> n]
NaN == [k |-> "nan", v |-> 0]
Str == [k |-> "str", v |-> 0]
Err == [k |-> "err", v |-> 0]

IsNum(x) == x.k = "num"
IsErr(x) == x.k = "err"

\* a * b.  str * str and str * float (NaN) raise TypeError; str * int is the
\* str repeated; NaN absorbs every number.
PyMul(a, b) ==
    IF IsErr(a) \/ IsErr(b) THEN Err
    ELSE IF a.k = "str" /\ b.k = "str" THEN Err
    ELSE IF a.k = "str" \/ b.k = "str"
         THEN (IF a.k = "nan" \/ b.k = "nan" THEN Err ELSE Str)
    ELSE IF a.k = "nan" \/ b.k = "nan" THEN NaN
    ELSE Num(a.v * b.v)

\* a + b.  str + str concatenates, str + number raises TypeError.
PyAdd(a, b) ==
    IF IsErr(a) \/ IsErr(b) THEN Err
    ELSE IF a.k = "str" /\ b.k = "str" THEN Str
    ELSE IF a.k = "str" \/ b.k = "str" THEN Err
    ELSE IF a.k = "nan" \/ b.k = "nan" THEN NaN
    ELSE Num(a.v + b.v)

----------------------------------------------------------------------------
(* utils/math_utils.py *)

calculate_surface_area_swapped(height, weight, breadth) ==
    PyMul(Num(2), PyAdd(PyAdd(PyMul(weight, breadth), PyMul(weight, height)),
                        PyMul(breadth, weight)))

calculate_surface_area(height, weight, breadth) ==
    PyMul(Num(2), PyAdd(PyAdd(PyMul(weight, breadth), PyMul(weight, height)),
                        PyMul(breadth, height)))

calculate_capacity(height, weight, breadth) ==
    PyMul(PyMul(height, weight), breadth)

----------------------------------------------------------------------------
(* The calculators on their own: every triple of the value domain. *)

MaxDim == 2

DimNumbers == (0 - MaxDim) .. MaxDim
DimValues == {Num(n) : n \in DimNumbers} \cup {NaN, Str}

NoArgs == <<>>
NoRet == [surface_area |-> Err, capacity |-> Err, called |-> FALSE]

Calculate ==
    /\ ~ret.called
    /\ ret' = [surface_area |-> calculate_surface_area(args[1], args[2], args[3]),
               capacity |-> calculate_capacity(args[1], args[2], args[3]),
               called |-> TRUE]
    /\ UNCHANGED <<args, pipeVars, pc, outVars, appVars>>

----------------------------------------------------------------------------
(* The input table *)

MaxRecords == 2

\* An image reference: a str (scheme, rest) or, for an empty cell, NaN.
Url(scheme, rest) == [k |-> "str", v |-> <<scheme, rest>>]
NoUrl == [k |-> "nan", v |-> <<>>]

TEST_PNG == "/tmp/test.png"
MISSING_GIF == "/tmp/missing.gif"
INPUT_CSV == "input/testbed.csv"

Ids == {Num(1), Num(2)}
Urls == {Url("file://", TEST_PNG), Url("file://", MISSING_GIF),
         Url("http://", "unreachable.example/box.jpg"), NoUrl}
\* (height, weight, breadth) as the cells of one row: well formed, an empty
\* height cell, a breadth that is not a number.
Boxes == {<<Num(2), Num(3), Num(4)>>, <<NaN, Num(3), Num(4)>>,
          <<Num(2), Num(3), Str>>}

COLUMNS == {"image_id", "image_url", "height", "weight", "breadth"}

Row(id, url, box) ==
    [image_id |-> id, image_url |-> url,
     height |-> box[1], weight |-> box[2], breadth |-> box[3]]

Rows == {Row(id, url, box) : id \in Ids, url \in Urls, box \in Boxes}

SeqsUpTo(S, n) == UNION {[1..m -> S] : m \in 0..n}

\* The rows of a table without a breadth column: nothing is read of it.
RowsLackingBreadth == {Row(id, url, <<box[1], box[2], NaN>>) :
                          id \in Ids, url \in Urls, box \in Boxes}

\* A table on disk: its header and its rows.  A header may lack a column.
Tables ==
    {[cols |-> COLUMNS, rows |-> r] : r \in SeqsUpTo(Rows, MaxRecords)}
    \cup {[cols |-> COLUMNS \ {"breadth"}, rows |-> r] :
             r \in SeqsUpTo(RowsLackingBreadth, MaxRecords)}

NoTable == [cols |-> {}, rows |-> <<>>]

\* pd.read_csv: a column is numeric when every cell of it is a number or
\* empty; one cell of text makes every non-empty cell of the column a str.
\* An empty cell is NaN either way.
IsTextColumn(table, c) == \E i \in DOMAIN table.rows : table.rows[i][c].k = "str"

read_cell(table, c, cell) ==
    IF cell.k = "num" /\ IsTextColumn(table, c) THEN Str ELSE cell

read_csv(table) ==
    [cols |-> table.cols,
     rows |-> [i \in DOMAIN table.rows |->
                 [image_id |-> table.rows[i].image_id,
                  image_url |-> table.rows[i].image_url,
                  height |-> read_cell(table, "height", table.rows[i].height),
                  weight |-> read_cell(table, "weight", table.rows[i].weight),
                  breadth |-> read_cell(table, "breadth", table.rows[i].breadth)]]]

----------------------------------------------------------------------------
(* process_boxes.py: download_image_as_base64 *)

\* Ticks of 0.1 s.
REQUEST_TIMEOUT == 100

EMPTY_STRING == <<>>

Suffix(path) ==
    CASE path = TEST_PNG -> ".png"
      [] path = MISSING_GIF -> ".gif"
      [] path = "uploads/box.png" -> ".png"
      [] OTHER -> ""

content_type_map(ext) ==
    CASE ext = ".png" -> "image/png"
      [] ext = ".jpg" -> "image/jpeg"
      [] ext = ".jpeg" -> "image/jpeg"
      [] ext = ".gif" -> "image/gif"
      [] OTHER -> "image/jpeg"

\* f"data:{content_type};base64,{image_base64}", the bytes named by where
\* they came from.
DataUri(content_type, source) == <<"data:", content_type, ";base64,", source>>

\* What the network does to one requests.get; "none" when the reference
\* never reaches requests.get.
NetOutcomes == {"ok", "error", "timeout"}
UsesNetwork(url) == url.k = "str" /\ url.v[1] # "file://"
NetChoices(url) == IF UsesNetwork(url) THEN NetOutcomes ELSE {"none"}

\* The result and the time it took.  Every exception is caught: a reference
\* that is no str (AttributeError on startswith), a file that is not there,
\* a failed or timed out request.
download_image_as_base64_raising(url, files, net) ==
    IF url.k # "str" THEN [image |-> EMPTY_STRING, ticks |-> 0, raised |-> TRUE]
    ELSE IF url.v[1] = "file://"
    THEN IF url.v[2] \in files
         THEN [image |-> DataUri(content_type_map(Suffix(url.v[2])), url.v[2]),
               ticks |-> 0, raised |-> FALSE]
         ELSE [image |-> EMPTY_STRING, ticks |-> 0, raised |-> TRUE]
    ELSE CASE net = "ok" -> [image |-> DataUri("image/jpeg", url.v[2]),
                             ticks |-> 0, raised |-> FALSE]
           [] net = "error" -> [image |-> EMPTY_STRING, ticks |-> 0, raised |-> TRUE]
           [] net = "timeout" -> [image |-> EMPTY_STRING, ticks |-> REQUEST_TIMEOUT,
                                  raised |-> TRUE]

download_image_as_base64(url, files, net) ==
    IF url.k # "str" THEN [image |-> EMPTY_STRING, ticks |-> 0, raised |-> FALSE]
    ELSE IF url.v[1] = "file://"
    THEN IF url.v[2] \in files
         THEN [image |-> DataUri(content_type_map(Suffix(url.v[2])), url.v[2]),
               ticks |-> 0, raised |-> FALSE]
         ELSE [image |-> EMPTY_STRING, ticks |-> 0, raised |-> FALSE]
    ELSE CASE net = "ok" -> [image |-> DataUri("image/jpeg", url.v[2]),
                             ticks |-> 0, raised |-> FALSE]
           [] net = "error" -> [image |-> EMPTY_STRING, ticks |-> 0, raised |-> FALSE]
           [] net = "timeout" -> [image |-> EMPTY_STRING, ticks |-> REQUEST_TIMEOUT,
                                  raised |-> FALSE]

----------------------------------------------------------------------------
(* process_boxes.py: process_images, one action per step of its loop *)

\* random.uniform(0.1, 2.0), in ticks.
DELAY_MIN == 1
DELAY_MAX == 20
Delays == {DELAY_MIN, DELAY_MAX}

\* The locals of the loop body; they keep their values from one row to the
\* next until assigned again.
NoCur ==
    [image_id |-> NaN, image_url |-> NoUrl, height |-> NaN, weight |-> NaN,
     breadth |-> NaN, surface_area |-> NaN, capacity |-> NaN,
     start_time |-> 0, processing_delay |-> 0, end_time |-> 0,
     image_base64 |-> EMPTY_STRING]

NoDf == [cols |-> {}, rows |-> <<>>]

\* df = pd.read_csv(input_csv); the two result lists start empty.
process_images_read ==
    /\ ppc = "read"
    /\ df' = read_csv(csv_file)
    /\ idx' = 1
    /\ processed_data' = <<>>
    /\ processing_times' = <<>>
    /\ ppc' = IF Len(csv_file.rows) = 0 THEN "returned" ELSE "start"
    /\ net_log' = <<>>
    /\ UNCHANGED <<fs, csv_file, now, cur, steps>>
    /\ UNCHANGED callerVars

\* start_time = time.time()
process_images_start ==
    /\ ppc = "start"
    /\ cur' = [cur EXCEPT !.start_time = now]
    /\ steps' = <<"start">>
    /\ ppc' = "calculate"
    /\ UNCHANGED <<net_log, fs, csv_file, df, idx, now, processed_data, processing_times>>
    /\ UNCHANGED callerVars

\* row[...] five times, then the two calculators.  A column the header lacks
\* is a KeyError, a TypeError of the arithmetic leaves the function as well.
process_images_calculate ==
    /\ ppc = "calculate"
    /\ LET row == df.rows[idx]
           sa == calculate_surface_area(row.height, row.weight, row.breadth)
           cap == calculate_capacity(row.height, row.weight, row.breadth)
       IN  IF ~(COLUMNS \subseteq df.cols) \/ IsErr(sa) \/ IsErr(cap)
           THEN /\ ppc' = "raised"
                /\ UNCHANGED <<cur, steps>>
           ELSE /\ cur' = [cur EXCEPT !.image_id = row.image_id,
                                       !.image_url = row.image_url,
                                       !.height = row.height,
                                       !.weight = row.weight,
                                       !.breadth = row.breadth,
                                       !.surface_area = sa,
                                       !.capacity = cap]
                /\ steps' = Append(steps, "calculate")
                /\ ppc' = "delay"
    /\ UNCHANGED <<net_log, fs, csv_file, df, idx, now, processed_data, processing_times>>
    /\ UNCHANGED callerVars

\* time.sleep(random.uniform(0.1, 2.0))
process_images_delay_skipped ==
    /\ ppc = "delay"
    /\ \E processing_delay \in Delays :
         cur' = [cur EXCEPT !.processing_delay = processing_delay]
    /\ steps' = Append(steps, "delay")
    /\ ppc' = "fetch"
    /\ UNCHANGED <<net_log, fs, csv_file, df, idx, now, processed_data, processing_times>>
    /\ UNCHANGED callerVars

process_images_delay ==
    /\ ppc = "delay"
    /\ \E processing_delay \in Delays :
         /\ cur' = [cur EXCEPT !.processing_delay = processing_delay]
         /\ now' = now + processing_delay
    /\ steps' = Append(steps, "delay")
    /\ ppc' = "fetch"
    /\ UNCHANGED <<net_log, fs, csv_file, df, idx, processed_data, processing_times>>
    /\ UNCHANGED callerVars

\* image_base64 = download_image_as_base64(image_url)
process_images_fetch ==
    /\ ppc = "fetch"
    /\ \E net \in NetChoices(cur.image_url) :
         LET got == download_image_as_base64(cur.image_url, fs, net)
         IN  /\ now' = now + got.ticks
             /\ net_log' = Append(net_log, net)
             /\ IF got.raised
                THEN /\ ppc' = "raised"
                     /\ UNCHANGED <<cur, steps>>
                ELSE /\ cur' = [cur EXCEPT !.image_base64 = got.image]
                     /\ steps' = Append(steps, "fetch")
                     /\ ppc' = "end"
    /\ UNCHANGED <<fs, csv_file, df, idx, processed_data, processing_times>>
    /\ UNCHANGED callerVars

Enriched(c, processing_time) ==
    [image_id |-> c.image_id, image_url |-> c.image_url, height |-> c.height,
     weight |-> c.weight, breadth |-> c.breadth, surface_area |-> c.surface_area,
     capacity |-> c.capacity, processing_time |-> processing_time,
     image_base64 |-> c.image_base64]

\* end_time = time.time(); the two appends; the next row, or the return.
process_images_end_prepending ==
    /\ ppc = "end"
    /\ LET processing_time == now - cur.start_time
       IN  /\ processing_times' = Append(processing_times, processing_time)
           /\ processed_data' = <<Enriched(cur, processing_time)>> \o processed_data
    /\ cur' = [cur EXCEPT !.end_time = now]
    /\ steps' = Append(steps, "end")
    /\ idx' = idx + 1
    /\ ppc' = IF idx = Len(df.rows) THEN "returned" ELSE "start"
    /\ UNCHANGED <<net_log, fs, csv_file, df, now>>
    /\ UNCHANGED callerVars

process_images_end ==
    /\ ppc = "end"
    /\ LET processing_time == now - cur.start_time
       IN  /\ processing_times' = Append(processing_times, processing_time)
           /\ processed_data' = Append(processed_data, Enriched(cur, processing_time))
    /\ cur' = [cur EXCEPT !.end_time = now]
    /\ steps' = Append(steps, "end")
    /\ idx' = idx + 1
    /\ ppc' = IF idx = Len(df.rows) THEN "returned" ELSE "start"
    /\ UNCHANGED <<net_log, fs, csv_file, df, now>>
    /\ UNCHANGED callerVars

----------------------------------------------------------------------------
(* utils/math_utils.py: generate_timing_statistics *)

RECURSIVE GCD(_, _)
GCD(a, b) == IF b = 0 THEN a ELSE GCD(b, a % b)

\* The fraction n/d (n >= 0, d > 0) in lowest terms.
Rat(n, d) == LET g == GCD(n, d) IN [num |-> n \div g, den |-> d \div g]

RECURSIVE Sum(_)
Sum(s) == IF s = <<>> THEN 0 ELSE Head(s) + Sum(Tail(s))

RECURSIVE SumSquares(_)
SumSquares(s) == IF s = <<>> THEN 0 ELSE Head(s) * Head(s) + SumSquares(Tail(s))

RECURSIVE Insert(_, _)
Insert(x, s) ==
    IF s = <<>> THEN <<x>>
    ELSE IF x <= Head(s) THEN <<x>> \o s
    ELSE <<Head(s)>> \o Insert(x, Tail(s))

RECURSIVE sorted(_)
sorted(s) == IF s = <<>> THEN <<>> ELSE Insert(Head(s), sorted(Tail(s)))

\* statistics.mean
mean(data) == Rat(Sum(data), Len(data))

\* statistics.median: the middle value, or the mean of the two middle ones.
median(data) ==
    LET s == sorted(data)
        n == Len(data)
    IN  IF n % 2 = 1 THEN Rat(s[(n + 1) \div 2], 1)
        ELSE Rat(s[n \div 2] + s[n \div 2 + 1], 2)

PyMin(data) == CHOOSE x \in {data[i] : i \in DOMAIN data} :
                  \A i \in DOMAIN data : x <= data[i]
PyMax(data) == CHOOSE x \in {data[i] : i \in DOMAIN data} :
                  \A i \in DOMAIN data : x >= data[i]

\* statistics.stdev is the square root of the Bessel-corrected variance
\*   (n * sum(x^2) - sum(x)^2) / (n * (n - 1));
\* a standard deviation is kept as its radicand.
\* Fewer than two data points raise StatisticsError.
stdev(data) ==
    LET n == Len(data)
    IN  IF n < 2 THEN [radicand |-> Rat(0, 1), raised |-> TRUE]
        ELSE [radicand |-> Rat(n * SumSquares(data) - Sum(data) * Sum(data),
                               n * (n - 1)),
              raised |-> FALSE]

ZERO == [radicand |-> Rat(0, 1), raised |-> FALSE]

\* np.percentile(a, q), linear interpolation: the virtual index (n-1)*q/100
\* into the sorted data, its fractional part weighing the two neighbours.
percentile(a, q) ==
    LET s == sorted(a)
        n == Len(a)
        lo == ((n - 1) * q) \div 100
        g == ((n - 1) * q) % 100
        hi == IF lo + 1 < n THEN lo + 1 ELSE lo
    IN  Rat(100 * s[lo + 1] + g * (s[hi + 1] - s[lo + 1]), 100)

EMPTY_DICT == <<>>

Populated(processing_times_) ==
    [count |-> Len(processing_times_),
     average |-> mean(processing_times_),
     median |-> median(processing_times_),
     min |-> PyMin(processing_times_),
     max |-> PyMax(processing_times_),
     std_dev |-> IF Len(processing_times_) > 1 THEN stdev(processing_times_) ELSE ZERO,
     p90 |-> percentile(processing_times_, 90),
     p99 |-> percentile(processing_times_, 99)]

generate_timing_statistics_unguarded(processing_times_) ==
    IF processing_times_ = <<>> THEN EMPTY_DICT
    ELSE [Populated(processing_times_) EXCEPT !.std_dev = stdev(processing_times_)]

generate_timing_statistics(processing_times_) ==
    IF processing_times_ = <<>> THEN EMPTY_DICT ELSE Populated(processing_times_)

----------------------------------------------------------------------------
(* utils/report_utils.py *)

\* round(x, ndigits) and f"{x:.<ndigits>f}" of a whole number: the number in
\* units of 10^-ndigits.  NaN stays NaN.
Fixed(x, ndigits) ==
    IF x.k = "num"
    THEN [k |-> "fixed", v |-> x.v * (10 ^ ndigits), ndigits |-> ndigits]
    ELSE [k |-> x.k, v |-> 0, ndigits |-> ndigits]

\* The same of a time in ticks of 0.1 s.
FixedTicks(t, ndigits) == [k |-> "fixed", v |-> t * (10 ^ (ndigits - 1)), ndigits |-> ndigits]

\* One row of the DataFrame built from csv_data: its cells, in column order.
csv_row(item) ==
    << <<"image_id", item.image_id>>, <<"image_url", item.image_url>>,
       <<"height", item.height>>, <<"weight", item.weight>>,
       <<"breadth", item.breadth>>,
       <<"surface_area", Fixed(item.surface_area, 2)>>,
       <<"capacity", Fixed(item.capacity, 2)>>,
       <<"processing_time", FixedTicks(item.processing_time, 3)>> >>

generate_csv_output(processed_data_) ==
    [i \in DOMAIN processed_data_ |-> csv_row(processed_data_[i])]

\* The Image cell of a row of the markdown table.
image_display_always_embedded(item) ==
    <<"<img src=", item.image_base64, "alt=Box", item.image_id>>

image_display(item) ==
    IF item.image_base64 # EMPTY_STRING
    THEN <<"<img src=", item.image_base64, "alt=Box", item.image_id>>
    ELSE <<"[Image](", item.image_url, ")">>

markdown_row(item) ==
    [image_id |-> item.image_id,
     image |-> image_display(item),
     surface_area |-> Fixed(item.surface_area, 2),
     capacity |-> Fixed(item.capacity, 2),
     processing_time |-> FixedTicks(item.processing_time, 3)]

markdown_detail(item) ==
    [image_id |-> item.image_id, image_url |-> item.image_url,
     dimensions |-> <<item.height, item.weight, item.breadth>>,
     surface_area |-> Fixed(item.surface_area, 2),
     capacity |-> Fixed(item.capacity, 2),
     processing_time |-> FixedTicks(item.processing_time, 3)]

\* The document, section by section; the statistics table is there only for
\* a non-empty timing_stats.
generate_markdown_output(processed_data_, timing_stats_) ==
    [table |-> [i \in DOMAIN processed_data_ |-> markdown_row(processed_data_[i])],
     has_statistics |-> (DOMAIN timing_stats_ # {}),
     statistics |-> timing_stats_,
     details |-> [i \in DOMAIN processed_data_ |-> markdown_detail(processed_data_[i])]]

----------------------------------------------------------------------------
(* process_boxes.py: main *)

OUTPUT_CSV == "output/processed_boxes.csv"
OUTPUT_MARKDOWN == "output/box_processing_report.md"

NOT_WRITTEN == <<"not written">>

\* Without the input file main prints an error and returns; with it,
\* process_images(input_csv) is called.
main_start ==
    /\ pc = "main"
    /\ IF INPUT_CSV \in fs
       THEN ppc' = "read" /\ pc' = "main_process"
       ELSE ppc' = ppc /\ pc' = "not found"
    /\ UNCHANGED <<fs, csv_file, df, idx, now, cur, steps, net_log,
                   processed_data, processing_times>>
    /\ UNCHANGED outVars
    /\ UNCHANGED <<geomVars, appVars>>

\* process_images returned: the statistics and the two output files.
main_report ==
    /\ pc = "main_process"
    /\ ppc = "returned"
    /\ LET stats == generate_timing_statistics(processing_times)
       IN  /\ timing_stats' = stats
           /\ csv_output' = generate_csv_output(processed_data)
           /\ markdown_output' = generate_markdown_output(processed_data, stats)
    /\ fs' = fs \cup {OUTPUT_CSV, OUTPUT_MARKDOWN}
    /\ pc' = "done"
    /\ UNCHANGED <<csv_file, df, idx, ppc, now, cur, steps, net_log,
                   processed_data, processing_times>>
    /\ UNCHANGED <<geomVars, appVars>>

\* process_images raised: nothing in main catches it.
main_raise ==
    /\ pc = "main_process"
    /\ ppc = "raised"
    /\ pc' = "raised"
    /\ UNCHANGED pipeVars
    /\ UNCHANGED outVars
    /\ UNCHANGED <<geomVars, appVars>>

----------------------------------------------------------------------------
(* app.py *)

UPLOADED_PNG == "uploads/box.png"
UPLOADED_CSV == "uploads/boxes.csv"
TEMP_CSV == "/tmp/tmpXXXXXXXX.csv"

ALLOWED_EXTENSIONS == {"png", "jpg", "jpeg", "gif"}

\* The texts a form field may hold; ABSENT is a field the form lacks.
ABSENT == "<absent>"
FormTexts == {ABSENT, "abc", "nan", "-1", "0", "2"}

\* float(request.form.get(name, 0))
PyFloat(text) ==
    CASE text = ABSENT -> Num(0)
      [] text = "nan" -> NaN
      [] text = "-1" -> Num(0 - 1)
      [] text = "0" -> Num(0)
      [] text = "2" -> Num(2)
      [] OTHER -> Err

\* x <= 0: every comparison with NaN is False.
LeZero(x) == x.k = "num" /\ x.v <= 0

EMPTY_URL == Url("", "")
HTTP_URL == Url("http://", "unreachable.example/box.jpg")
FormUrls == {EMPTY_URL, HTTP_URL}

\* The filename of the uploaded part; "" when no file was chosen.
ImageFilenames == {"", "box.png", "notes.txt"}
CsvFilenames == {ABSENT, "", "boxes.csv", "boxes.txt"}

\* filename.rsplit('.', 1)[1].lower()
Extension(filename) ==
    CASE filename = "box.png" -> "png"
      [] filename = "notes.txt" -> "txt"
      [] filename = "boxes.csv" -> "csv"
      [] filename = "boxes.txt" -> "txt"
      [] OTHER -> ""

allowed_file(filename) == Extension(filename) \in ALLOWED_EXTENSIONS

\* os.path.join(app.config['UPLOAD_FOLDER'], secure_filename(filename))
UploadPath(filename) ==
    CASE filename = "box.png" -> UPLOADED_PNG
      [] filename = "boxes.csv" -> UPLOADED_CSV
      [] OTHER -> "uploads/"

ProcessRequests ==
    {[route |-> "/process", height |-> h, weight |-> w, breadth |-> b,
      image_url |-> u, image_file |-> f, csv_name |-> ABSENT, csv_table |-> NoTable] :
        h \in FormTexts, w \in FormTexts, b \in FormTexts,
        u \in FormUrls, f \in ImageFilenames}

BatchRequest(name, table) ==
    [route |-> "/batch/upload", height |-> ABSENT, weight |-> ABSENT,
     breadth |-> ABSENT, image_url |-> EMPTY_URL, image_file |-> "",
     csv_name |-> name, csv_table |-> table]

\* Only a part that is saved has its content read.
BatchRequests ==
    {BatchRequest("boxes.csv", t) : t \in Tables}
    \cup {BatchRequest(n, NoTable) : n \in CsvFilenames \ {"boxes.csv"}}

NoRequest ==
    [route |-> "", height |-> ABSENT, weight |-> ABSENT, breadth |-> ABSENT,
     image_url |-> EMPTY_URL, image_file |-> "", csv_name |-> ABSENT,
     csv_table |-> NoTable]

NoResult == <<>>

\* The str "1", "2", ...: what DataFrame.to_csv writes of it reads back as
\* the number.
DigitStr(n) == [k |-> "digits", v |-> n]
to_csv_cell(x) == IF x.k = "digits" THEN Num(x.v) ELSE x

Flash(message) == flashes' = Append(flashes, message)

\* The image input of a /process submission: the reference handed to the
\* core, or the message flashed.
final_image_url(req) ==
    IF req.image_file # ""
    THEN IF allowed_file(req.image_file)
         THEN [ok |-> TRUE, url |-> Url("file://", UploadPath(req.image_file)),
               save |-> {UploadPath(req.image_file)}, message |-> ""]
         ELSE [ok |-> FALSE, url |-> EMPTY_URL, save |-> {},
               message |-> "Invalid file type. Please upload PNG, JPG, JPEG, or GIF files"]
    ELSE IF req.image_url # EMPTY_URL
    THEN [ok |-> TRUE, url |-> req.image_url, save |-> {}, message |-> ""]
    ELSE [ok |-> FALSE, url |-> EMPTY_URL, save |-> {},
          message |-> "Please provide either an image URL or upload an image file"]

\* if height <= 0 or weight <= 0 or breadth <= 0
dimensions_rejected(height, weight, breadth) ==
    LeZero(height) \/ LeZero(weight) \/ LeZero(breadth)

\* process_box up to the call of process_single_box_via_csv, and that
\* function up to its call of process_images: the three float()s, the
\* validation, the image input (an allowed upload is saved), then the
\* temporary file and the one-row table written into it.  The write may fail
\* (OSError), which leaves the function before its try.
process_box_submit ==
    /\ pc = "process_box"
    /\ LET height == PyFloat(request.height)
           weight == PyFloat(request.weight)
           breadth == PyFloat(request.breadth)
           image == final_image_url(request)
       IN  IF IsErr(height) \/ IsErr(weight) \/ IsErr(breadth)
           THEN /\ Flash("Please enter valid numeric values for dimensions")
                /\ response' = "redirect:index"
                /\ pc' = "done"
                /\ UNCHANGED <<fs, csv_file, ppc, saved>>
           ELSE IF dimensions_rejected(height, weight, breadth)
           THEN /\ Flash("All dimensions must be positive numbers")
                /\ response' = "redirect:index"
                /\ pc' = "done"
                /\ UNCHANGED <<fs, csv_file, ppc, saved>>
           ELSE IF ~image.ok
           THEN /\ Flash(image.message)
                /\ response' = "redirect:index"
                /\ pc' = "done"
                /\ UNCHANGED <<fs, csv_file, ppc, saved>>
           ELSE /\ saved' = saved \cup image.save
                /\ \E written \in BOOLEAN :
                     IF written
                     THEN /\ fs' = fs \cup image.save \cup {TEMP_CSV}
                          /\ csv_file' =
                               [cols |-> COLUMNS,
                                rows |-> <<Row(to_csv_cell(DigitStr(1)), image.url,
                                               <<height, weight, breadth>>)>>]
                          /\ ppc' = "read"
                          /\ pc' = "process_single_box_via_csv"
                          /\ UNCHANGED <<flashes, response>>
                     ELSE /\ fs' = fs \cup image.save \cup {TEMP_CSV}
                          /\ Flash("An error occurred: OSError")
                          /\ response' = "redirect:index"
                          /\ pc' = "done"
                          /\ UNCHANGED <<csv_file, ppc>>
    /\ UNCHANGED <<df, idx, now, cur, steps, net_log, processed_data,
                   processing_times, request, result>>
    /\ UNCHANGED outVars
    /\ UNCHANGED geomVars

\* get_image_as_base64_from_file
get_image_as_base64_from_file(file_path, files) ==
    IF file_path \in files
    THEN DataUri(content_type_map(Suffix(file_path)), file_path)
    ELSE EMPTY_STRING

\* process_images is back: the finally of process_single_box_via_csv unlinks
\* the temporary file, then process_box renders the record, or flashes what
\* was raised.
process_box_finish ==
    /\ pc = "process_single_box_via_csv"
    /\ ppc \in {"returned", "raised"}
    /\ fs' = fs \ {TEMP_CSV}
    /\ IF ppc = "raised"
       THEN /\ Flash("An error occurred")
            /\ response' = "redirect:index"
            /\ UNCHANGED result
       ELSE IF processed_data = <<>>
       THEN /\ Flash("Please enter valid numeric values for dimensions")
            /\ response' = "redirect:index"
            /\ UNCHANGED result
       ELSE /\ result' =
                 LET r == processed_data[1]
                 IN  IF r.image_url.v[1] = "file://" /\ r.image_base64 = EMPTY_STRING
                     THEN [r EXCEPT !.image_base64 =
                             get_image_as_base64_from_file(r.image_url.v[2], fs)]
                     ELSE r
            /\ response' = "results.html"
            /\ UNCHANGED flashes
    /\ pc' = "done"
    /\ UNCHANGED <<csv_file, df, idx, ppc, now, cur, steps, net_log,
                   processed_data, processing_times, request, saved>>
    /\ UNCHANGED outVars
    /\ UNCHANGED geomVars

\* batch_upload up to its call of process_images: the uploaded table is
\* saved under the upload folder and handed to process_images.
batch_upload_submit ==
    /\ pc = "batch_upload"
    /\ IF request.csv_name = ABSENT
       THEN /\ Flash("No CSV file uploaded")
            /\ response' = "redirect:batch_processing"
            /\ pc' = "done"
            /\ UNCHANGED <<fs, csv_file, ppc, saved>>
       ELSE IF request.csv_name = ""
       THEN /\ Flash("No file selected")
            /\ response' = "redirect:batch_processing"
            /\ pc' = "done"
            /\ UNCHANGED <<fs, csv_file, ppc, saved>>
       ELSE IF Extension(request.csv_name) = "csv"
       THEN /\ fs' = fs \cup {UploadPath(request.csv_name)}
            /\ saved' = saved \cup {UploadPath(request.csv_name)}
            /\ csv_file' = request.csv_table
            /\ ppc' = "read"
            /\ pc' = "batch_process_images"
            /\ UNCHANGED <<flashes, response>>
       ELSE /\ Flash("Please upload a valid CSV file")
            /\ response' = "redirect:batch_processing"
            /\ pc' = "done"
            /\ UNCHANGED <<fs, csv_file, ppc, saved>>
    /\ UNCHANGED <<df, idx, now, cur, steps, net_log, processed_data,
                   processing_times, request, result>>
    /\ UNCHANGED outVars
    /\ UNCHANGED geomVars

\* process_images is back: the results page, or the error flashed.
batch_upload_finish ==
    /\ pc = "batch_process_images"
    /\ ppc \in {"returned", "raised"}
    /\ IF ppc = "raised"
       THEN /\ Flash("Error processing batch file")
            /\ response' = "redirect:batch_processing"
            /\ UNCHANGED result
       ELSE /\ result' = [results |-> processed_data,
                          processing_times |-> processing_times]
            /\ response' = "batch_results.html"
            /\ UNCHANGED flashes
    /\ pc' = "done"
    /\ UNCHANGED pipeVars
    /\ UNCHANGED <<request, saved>>
    /\ UNCHANGED outVars
    /\ UNCHANGED geomVars

----------------------------------------------------------------------------
(* Specifications *)

\* Everything at rest: nothing called, nothing written.
GeomAtRest == args = NoArgs /\ ret = NoRet
PipeAtRest ==
    /\ df = NoDf /\ idx = 0 /\ ppc = "idle" /\ now = 0 /\ cur = NoCur
    /\ steps = <<>> /\ net_log = <<>>
    /\ processed_data = <<>> /\ processing_times = <<>>
OutAtRest ==
    timing_stats = NOT_WRITTEN /\ csv_output = NOT_WRITTEN /\ markdown_output = NOT_WRITTEN
AppAtRest ==
    /\ request = NoRequest /\ flashes = <<>> /\ response = ""
    /\ result = NoResult /\ saved = {}

\* python process_boxes.py, over the tables input/testbed.csv may hold.
Init ==
    /\ GeomAtRest /\ PipeAtRest /\ OutAtRest /\ AppAtRest
    /\ \/ fs = {INPUT_CSV, TEST_PNG} /\ csv_file \in Tables
       \/ fs = {TEST_PNG} /\ csv_file = NoTable
    /\ pc = "main"

Next ==
    \/ main_start
    \/ process_images_read
    \/ process_images_start
    \/ process_images_calculate
    \/ process_images_delay
    \/ process_images_fetch
    \/ process_images_end
    \/ main_report
    \/ main_raise

Spec == Init /\ [][Next]_vars

\* One request to the Flask application, the upload folder empty.
AppInit ==
    /\ GeomAtRest /\ PipeAtRest /\ OutAtRest
    /\ fs = {TEST_PNG}
    /\ csv_file = NoTable
    /\ request \in ProcessRequests \cup BatchRequests
    /\ pc = IF request.route = "/process" THEN "process_box" ELSE "batch_upload"
    /\ flashes = <<>> /\ response = "" /\ result = NoResult /\ saved = {}

AppNext ==
    \/ process_box_submit
    \/ process_box_finish
    \/ batch_upload_submit
    \/ batch_upload_finish
    \/ process_images_read
    \/ process_images_start
    \/ process_images_calculate
    \/ process_images_delay
    \/ process_images_fetch
    \/ process_images_end

SpecApp == AppInit /\ [][AppNext]_vars

\* The two calculators alone.
GeomInit ==
    /\ PipeAtRest /\ OutAtRest /\ AppAtRest
    /\ fs = {} /\ csv_file = NoTable /\ pc = "calculate"
    /\ args \in DimValues \X DimValues \X DimValues
    /\ ret = NoRet

SpecGeom == GeomInit /\ [][Calculate]_vars

\* generate_timing_statistics alone, over short sequences of timings.
MaxSamples == 3
MaxSample == 3

aggregate ==
    /\ pc = "aggregate"
    /\ timing_stats' = generate_timing_statistics(processing_times)
    /\ pc' = "done"
    /\ UNCHANGED <<geomVars, pipeVars, csv_output, markdown_output, appVars>>

StatsInit ==
    /\ GeomAtRest /\ OutAtRest /\ AppAtRest
    /\ df = NoDf /\ idx = 0 /\ ppc = "idle" /\ now = 0 /\ cur = NoCur
    /\ steps = <<>> /\ net_log = <<>> /\ processed_data = <<>>
    /\ fs = {} /\ csv_file = NoTable /\ pc = "aggregate"
    /\ processing_times \in SeqsUpTo(0..MaxSample, MaxSamples)

SpecStats == StatsInit /\ [][aggregate]_vars

----------------------------------------------------------------------------
(* Properties *)

\* C1: the records appended so far are, position by position, the rows of
\* the input table (identifier, reference and the three dimensions), each
\* timing is its record's processing_time, and once process_images has
\* returned both lists are exactly as long as the table.
C1_OrderPreserved ==
    /\ Len(processing_times) = Len(processed_data)
    /\ Len(processed_data) <= Len(csv_file.rows)
    /\ \A i \in DOMAIN processed_data :
         /\ processed_data[i].image_id = csv_file.rows[i].image_id
         /\ processed_data[i].image_url = csv_file.rows[i].image_url
         /\ processed_data[i].height = csv_file.rows[i].height
         /\ processed_data[i].weight = csv_file.rows[i].weight
         /\ processed_data[i].breadth = csv_file.rows[i].breadth
         /\ processing_times[i] = processed_data[i].processing_time
    /\ ppc = "returned" => Len(processed_data) = Len(csv_file.rows)

\* Two different rows, one fetched and one not, with different timings.
C1_Witness ==
    /\ ppc = "returned"
    /\ Len(processed_data) = 2
    /\ csv_file.rows[1] # csv_file.rows[2]
    /\ processing_times[1] > processing_times[2]
    /\ processed_data[1].image_base64 = EMPTY_STRING
    /\ processed_data[2].image_base64 # EMPTY_STRING

\* A fetch that cannot succeed: a reference that is no str, a local file
\* that is not there, a request the network fails or times out.
FetchFails(url, files, net) ==
    \/ url.k # "str"
    \/ url.k = "str" /\ url.v[1] = "file://" /\ url.v[2] \notin files
    \/ UsesNetwork(url) /\ net \in {"error", "timeout"}

\* C2: process_images is never left from its fetch step (it raises only in
\* the calculation, before any delay or fetch of that row), and every record
\* whose fetch failed is appended with an empty image_base64.
C2_FetchFailureIsolated ==
    /\ ppc = "raised" => steps = <<"start">>
    /\ Len(net_log) >= Len(processed_data)
    /\ \A i \in DOMAIN processed_data :
         FetchFails(csv_file.rows[i].image_url, fs, net_log[i])
             => processed_data[i].image_base64 = EMPTY_STRING

\* The first fetch timed out, the second record was still processed.
C2_Witness ==
    /\ ppc = "returned"
    /\ Len(processed_data) = 2
    /\ net_log[1] = "timeout"
    /\ processed_data[1].image_base64 = EMPTY_STRING
    /\ processed_data[2].image_base64 # EMPTY_STRING

\* A row that cannot be interpreted: the header lacks a required column, or
\* a dimension cell is empty or is not a number.
Malformed(table, i) ==
    \/ ~(COLUMNS \subseteq table.cols)
    \/ \E c \in {table.rows[i].height, table.rows[i].weight, table.rows[i].breadth} :
         c.k # "num"

\* C3: process_images returns only for a table without a malformed row.
C3_MalformedAborts ==
    ppc = "returned" => \A i \in DOMAIN csv_file.rows : ~Malformed(csv_file, i)

ORDER == <<"start", "calculate", "delay", "fetch", "end">>

\* C6: the steps of a row are taken in the order start, calculate, delay,
\* fetch, end; a row is started only when every earlier row has been
\* appended, and not before the previous row's end timestamp; a finished
\* row's elapsed time is end - start, covers its delay and its fetch, and
\* is at least the minimum delay.
C6_StepsInOrder ==
    /\ Len(steps) <= Len(ORDER)
    /\ steps = SubSeq(ORDER, 1, Len(steps))
    /\ (steps # <<>> /\ steps # ORDER) =>
         /\ Len(processed_data) = idx - 1
         /\ cur.start_time >= cur.end_time
    /\ steps = ORDER =>
         /\ Len(processed_data) = idx - 1
         /\ processing_times[idx - 1] = cur.end_time - cur.start_time
         /\ processing_times[idx - 1] >=
              cur.processing_delay
              + (IF net_log[idx - 1] = "timeout" THEN REQUEST_TIMEOUT ELSE 0)
    /\ \A i \in DOMAIN processing_times : processing_times[i] >= DELAY_MIN

\* A first row that took the minimum delay alone, a second one that took
\* the maximum delay and a timed out request.
C6_Witness ==
    /\ ppc = "returned"
    /\ Len(processing_times) = 2
    /\ processing_times[1] = DELAY_MIN
    /\ processing_times[2] = DELAY_MAX + REQUEST_TIMEOUT

\* C7: on three numbers, negative and zero included, the calculators return
\* 2*(weight*breadth + weight*height + breadth*height) and
\* height*weight*breadth; neither raises on anything that is no str.
C7_Formulas ==
    ret.called =>
        LET h == args[1]
            w == args[2]
            b == args[3]
        IN  /\ (IsNum(h) /\ IsNum(w) /\ IsNum(b)) =>
                 /\ ret.surface_area = Num(2 * w.v * b.v + 2 * w.v * h.v + 2 * b.v * h.v)
                 /\ ret.capacity = Num(h.v * w.v * b.v)
            /\ (h # Str /\ w # Str /\ b # Str) =>
                 /\ ~IsErr(ret.surface_area)
                 /\ ~IsErr(ret.capacity)

\* A negative height and a zero weight.
C7_Witness ==
    /\ ret.called
    /\ args = <<Num(0 - 2), Num(0), Num(1)>>
    /\ ret.surface_area = Num(0 - 4)
    /\ ret.capacity = Num(0)

\* C8: of no timings the statistics are the empty dict, which a populated
\* one never is; of one timing x they are count 1, average, median, min,
\* max, p90 and p99 all x, and a standard deviation of 0.
C8_DegenerateInputs ==
    pc = "done" =>
        /\ processing_times = <<>> <=> DOMAIN timing_stats = {}
        /\ Len(processing_times) = 1 =>
             LET x == processing_times[1]
             IN  /\ timing_stats.count = 1
                 /\ timing_stats.average = [num |-> x, den |-> 1]
                 /\ timing_stats.median = [num |-> x, den |-> 1]
                 /\ timing_stats.min = x
                 /\ timing_stats.max = x
                 /\ timing_stats.p90 = [num |-> x, den |-> 1]
                 /\ timing_stats.p99 = [num |-> x, den |-> 1]
                 /\ timing_stats.std_dev = ZERO

\* The statistics of the single timing 3.
C8_Witness ==
    /\ pc = "done"
    /\ processing_times = <<3>>
    /\ timing_stats.count = 1

CSV_COLUMNS ==
    <<"image_id", "image_url", "height", "weight", "breadth", "surface_area",
      "capacity", "processing_time">>

\* C9: the CSV has one row per record, its cells exactly the eight columns
\* in order (no image_base64); the markdown table has one row per record,
\* its image cell the embedded tag with the payload when the payload is not
\* empty and the plain link to image_url when it is.
C9_Rendering ==
    pc = "done" =>
        /\ Len(csv_output) = Len(processed_data)
        /\ Len(markdown_output.table) = Len(processed_data)
        /\ \A i \in DOMAIN processed_data :
             /\ [j \in DOMAIN csv_output[i] |-> csv_output[i][j][1]] = CSV_COLUMNS
             /\ IF processed_data[i].image_base64 # EMPTY_STRING
                THEN /\ markdown_output.table[i].image[1] = "<img src="
                     /\ markdown_output.table[i].image[2] = processed_data[i].image_base64
                ELSE /\ markdown_output.table[i].image[1] = "[Image]("
                     /\ markdown_output.table[i].image[2] = processed_data[i].image_url

\* A report of one record with its image and one without.
C9_Witness ==
    /\ pc = "done"
    /\ Len(processed_data) = 2
    /\ processed_data[1].image_base64 # EMPTY_STRING
    /\ processed_data[2].image_base64 = EMPTY_STRING
    /\ markdown_output.table[2].image[1] = "[Image]("

\* A form text that is a strictly positive number.
StrictlyPositive(text) == LET x == PyFloat(text) IN x.k = "num" /\ x.v > 0

\* A /process submission with three strictly positive dimensions and an
\* image input: an uploaded file of an allowed type, or a URL.
ValidSubmission(req) ==
    /\ StrictlyPositive(req.height)
    /\ StrictlyPositive(req.weight)
    /\ StrictlyPositive(req.breadth)
    /\ \/ req.image_file # "" /\ Extension(req.image_file) \in ALLOWED_EXTENSIONS
       \/ req.image_url # EMPTY_URL

\* C4: process_box reaches process_images only for a valid submission; of
\* any other it flashes an error and never calls it.
C4_CoreOnlyOnValidSubmission ==
    (request.route = "/process" /\ ~ValidSubmission(request)) =>
        /\ ppc = "idle"
        /\ pc = "done" => flashes # <<>>

\* C5: once the request is answered, no file it saved is left on disk.
C5_UploadsRemoved == pc = "done" => saved \cap fs = {}

\* C10: once a /process request is answered, the temporary CSV file of
\* process_single_box_via_csv is gone.
C10_NoTempFileLeft ==
    (request.route = "/process" /\ pc = "done") => TEMP_CSV \notin fs

====
